---- MODULE Spec2Model ----
(***************************************************************************)
(* A model of the Hydration Reminder application (src/app.py): the daily   *)
(* counter and its Excel log, the settings file, the self-rescheduling     *)
(* reminder timer, the tray thread and the window's presence.              *)
(*                                                                         *)
(* Two threads execute the handlers: "ui" is the Tk main loop (buttons,    *)
(* slider, timer callbacks, window-manager events) and "tray" is the       *)
(* thread started in create_tray_icon, which runs the tray menu's          *)
(* callbacks.  A handler is modelled one shared access per step, so that   *)
(* the interleavings of the two threads are those of the program.          *)
(***************************************************************************)
EXTENDS Integers, Sequences, FiniteSets, TLC

\* ------------------------------------------------------------------ bounds
MaxDay == 2        \* calendar dates are 1..MaxDay
MaxRows == 2       \* rows of the log file the program starts with
MaxCups == 3       \* largest "Total Cups" of a row the program starts with
MaxCalls == 2      \* counter calls (Drank / Peed) issued by each thread
MaxOverlap == 1    \* ... by each thread when the calls of the two may overlap
MaxUpserts == 2    \* applications of save_log to one (date, total) pair

Threads == {"ui", "tray"}
Dates == 1..MaxDay

\* ------------------------------------------------------------ the log file
\* A cell of the "Date" column: the text strftime("%Y-%m-%d") writes ("iso"),
\* or another rendering of the same day that pd.to_datetime still parses
\* ("alt": an Excel date cell, "2024/01/05", ...).
DateCells == [fmt : {"iso", "alt"}, day : Dates]

\* date.strftime("%Y-%m-%d")
strftime(d) == [fmt |-> "iso", day |-> d]

\* pd.to_datetime of one cell
to_datetime(cell) == cell.day

Rows == [Date : DateCells, Total_Cups : 0..MaxCups]

\* Every table of up to MaxRows rows.
Tables == UNION {[1..n -> Rows] : n \in 0..MaxRows}

NoLog == [exists |-> FALSE, rows |-> <<>>]

\* Any log file: none, or any table (a date may repeat, in any rendering).
AnyLogFiles == {NoLog} \cup {[exists |-> TRUE, rows |-> rs] : rs \in Tables}

\* The log files the program finds at startup on day `tdy`: none, or a table the
\* program wrote on earlier runs, one row per day in the order of the days,
\* none later than `tdy`.
LogFiles(tdy) == {NoLog} \cup {[exists |-> TRUE, rows |-> rs] : rs \in
    {t \in Tables : /\ \A i \in 1..Len(t) : t[i].Date.day <= tdy
                    /\ \A i \in 1..Len(t) : \A j \in 1..Len(t) :
                          i < j => t[i].Date.day < t[j].Date.day}}

\* A "Date" cell that pd.to_datetime cannot parse ("yesterday", "2024-13-45", ...),
\* in a row somebody meant for day `day`.
MalformedCells == [fmt : {"bad"}, day : Dates]

AnyRows == [Date : DateCells \cup MalformedCells, Total_Cups : 0..MaxCups]

\* The log files of LogFiles(tdy), and those with Date cells damaged by hand.
DamagedLogFiles(tdy) == {NoLog} \cup {[exists |-> TRUE, rows |-> rs] : rs \in
    {t \in UNION {[1..n -> AnyRows] : n \in 0..MaxRows} :
        /\ \A i \in 1..Len(t) : t[i].Date.day <= tdy
        /\ \A i \in 1..Len(t) : \A j \in 1..Len(t) :
              i < j => t[i].Date.day < t[j].Date.day}}

\* pd.to_datetime(df["Date"]) raises (a ValueError): some cell does not parse
to_datetime_raises(file) == \E i \in 1..Len(file.rows) : file.rows[i].Date.fmt = "bad"

\* df = pd.read_excel(LOG_FILE); df["Date"] = pd.to_datetime(df["Date"]).dt.strftime(...)
read_excel(file) == [i \in 1..Len(file.rows) |->
    [Date |-> strftime(to_datetime(file.rows[i].Date)), Total_Cups |-> file.rows[i].Total_Cups]]

\* df[df["Date"] == today]
today_entry(df, tdy) == SelectSeq(df, LAMBDA r : r.Date = strftime(tdy))

\* load_or_create_log: the total the counter starts from (0 when there is no
\* file, lines 106-108, and when reading it raises, lines 109-111)
load_or_create_log(file, tdy) ==
    IF ~file.exists THEN 0
    ELSE IF to_datetime_raises(file) THEN 0
    ELSE LET entry == today_entry(read_excel(file), tdy)
         IN IF entry # <<>> THEN entry[1].Total_Cups ELSE 0

\* new_row = {"Date": today, "Total Cups": self.daily_total}
new_row(tdy, total) == [Date |-> strftime(tdy), Total_Cups |-> total]

\* pd.concat([df, pd.DataFrame([new_row])], ignore_index=True)
concat(df, row) == Append(df, row)

\* df.loc[df["Date"] == today, "Total Cups"] = self.daily_total
loc_assign(df, tdy, total) == [i \in 1..Len(df) |->
    IF df[i].Date = strftime(tdy) THEN [df[i] EXCEPT !.Total_Cups = total] ELSE df[i]]

\* save_log that appends new_row whether or not today has a row
upsert_always_appends(df, tdy, total, row) == concat(df, row)

\* save_log, lines 122-127: update today's rows, or append new_row
upsert(df, tdy, total, row) ==
    IF \E i \in 1..Len(df) : df[i].Date = strftime(tdy)
    THEN loc_assign(df, tdy, total)
    ELSE concat(df, row)


\* ------------------------------------------------------- the settings file
\* The text of a number: its decimal digits, most significant first.
Digits == 0..9

RECURSIVE str(_)
\* str(n) of a non-negative int
str(n) == IF n < 10 THEN <<n>> ELSE Append(str(n \div 10), n % 10)

RECURSIVE int(_)
\* int(text) of a text of decimal digits
int(text) == IF Len(text) = 0 THEN 0
             ELSE 10 * int(SubSeq(text, 1, Len(text) - 1)) + text[Len(text)]

\* A settings file: whether it exists, whether it has the [Settings] section,
\* the keys the section holds and their values (a value of an absent key is
\* written as the empty text).
Keys == {"interval_minutes", "cup_name", "cup_amount_ml"}

NoSettings == [exists |-> FALSE, garbled |-> FALSE, section |-> FALSE, keys |-> {},
               interval_minutes |-> <<>>, cup_name |-> "", cup_amount_ml |-> <<>>]

\* load_settings, lines 70-76: the file written when there is none
DefaultSettings == [exists |-> TRUE, garbled |-> FALSE, section |-> TRUE, keys |-> Keys,
                    interval_minutes |-> <<3, 0>>, cup_name |-> "cup",
                    cup_amount_ml |-> <<2, 5, 0>>]

\* A file without the [Settings] section (an empty file, say).
NoSection == [NoSettings EXCEPT !.exists = TRUE]

\* The settings files the program may find at startup.
SettingsFiles == {NoSettings, NoSection} \cup
    {[exists |-> TRUE, garbled |-> FALSE, section |-> TRUE, keys |-> ks,
      interval_minutes |-> IF "interval_minutes" \in ks THEN iv ELSE <<>>,
      cup_name |-> IF "cup_name" \in ks THEN cn ELSE "",
      cup_amount_ml |-> IF "cup_amount_ml" \in ks THEN <<2, 5, 0>> ELSE <<>>] :
        ks \in SUBSET Keys, iv \in {<<3, 0>>, <<0, 4, 5>>}, cn \in {"cup", "glass"}}

\* A character of a value's text that is not a decimal digit.
OtherChar == 10

\* The texts somebody may have put as interval_minutes: whole minutes within
\* and outside the slider's range, and texts that are not a number.
IntervalTexts == {<<3, 0>>, <<0>>, <<1, 2, 1>>, <<>>, <<3, OtherChar>>}

\* A file configparser cannot parse (text before any section header, ...).
Garbled == [NoSettings EXCEPT !.exists = TRUE, !.garbled = TRUE]

\* Any settings file the program may find at startup, edited by hand or not.
AnySettingsFiles == {NoSettings, NoSection, Garbled} \cup
    {[exists |-> TRUE, garbled |-> FALSE, section |-> TRUE, keys |-> ks,
      interval_minutes |-> IF "interval_minutes" \in ks THEN iv ELSE <<>>,
      cup_name |-> IF "cup_name" \in ks THEN cn ELSE "",
      cup_amount_ml |-> <<>>] :
        ks \in SUBSET {"interval_minutes", "cup_name"}, iv \in IntervalTexts,
        cn \in {"cup", "glass"}}

\* int(text) raises ValueError
int_raises(text) == Len(text) = 0 \/ \E i \in 1..Len(text) : text[i] \notin Digits

\* load_settings, lines 68-76: the file after the call
load_settings_file(file) == IF ~file.exists THEN DefaultSettings ELSE file

\* load_settings, lines 78-82: what the call reads from `file`
load_settings(file) ==
    LET cfg == load_settings_file(file)
    IN [interval_minutes |-> IF cfg.section /\ "interval_minutes" \in cfg.keys
                             THEN int(cfg.interval_minutes) ELSE 30,
        cup_name |-> IF cfg.section /\ "cup_name" \in cfg.keys
                     THEN cfg.cup_name ELSE "cup"]

\* load_settings raises: config.read at line 78 (a configparser.Error), or
\* int(...) at line 79 (a ValueError)
load_settings_raises(file) ==
    LET cfg == load_settings_file(file)
    IN \/ cfg.garbled
       \/ cfg.section /\ "interval_minutes" \in cfg.keys /\ int_raises(cfg.interval_minutes)

\* save_settings, line 89: config["Settings"] exists
has_section(file) == file.exists /\ file.section

\* save_settings, lines 87-91, when the section exists
save_settings_file(file, minutes) ==
    [file EXCEPT !.keys = @ \cup {"interval_minutes"},
                 !.interval_minutes = str(minutes)]

\* The slider, lines 187-193: from 1 to 120 in 23 steps; step k is the value
\* 1 + k * 119 / 23, and int(value) cuts it to whole minutes.
slider_minutes(k) == (23 + k * 119) \div 23

\* The steps the slider is moved to.
SliderSteps == {0, 1, 23}

\* ------------------------------------------------------- the daily counter
VARIABLES
    daily_total,      \* self.daily_total
    progress_label,   \* the total shown by self.progress_label
    log_file,         \* water_log.xlsx
    today,            \* the calendar date date.today() returns
    pc,               \* where each thread is in the handler it runs
    frame,            \* the locals of the handler each thread runs
    ncalls,           \* history: counter calls each thread has begun
    npeed,            \* history: Peed calls begun, over both threads
    start_total,      \* history: daily_total when construction ended
    start_day,        \* history: the calendar date when construction ended
    settings_file,    \* settings.ini
    interval_minutes, \* self.interval_minutes
    cup_name,         \* self.cup_name
    interval_value_label, \* the minutes shown by self.interval_value_label
    timer_id,         \* self.timer_id: 0 is None, n is "after#n"
    after_pending,    \* Tk's table of scheduled `after` callbacks
    after_next,       \* the number of the next handle Tk's `after` returns
    tray_icon,        \* the pystray icon: "running" or "stopped"
    destroyed,        \* the root window is destroyed and mainloop has ended
    wm_state,         \* self.state(): "normal", "iconic" or "withdrawn"
    raised,           \* the window is on top of the stacking order
    focused,          \* the window has the input focus
    unmap_pending,    \* an <Unmap> event waits for its binding to run
    visible           \* history: the presence the handlers last asked for

counter_vars == <<daily_total, progress_label, log_file, today, pc, frame,
                  ncalls, npeed, start_total, start_day>>

shell_vars == <<settings_file, interval_minutes, cup_name, interval_value_label,
                timer_id, after_pending, after_next, tray_icon, destroyed,
                wm_state, raised, focused, unmap_pending, visible>>

NoFrame == [op |-> "none", entry |-> 0, day |-> 0, reg |-> 0, tdy |-> 0,
            row |-> new_row(0, 0), df |-> <<>>]

AllIdle == \A t \in Threads : pc[t] = "idle"

\* A Tk call made by the tray thread is carried out by the interpreter's own
\* thread, between two of its callbacks.
TkCallable(t) == t = "tray" => pc["ui"] = "idle"

\* line 212, self.daily_total += 1: the read
drank_water_load(t) ==
    /\ pc[t] = "idle"
    /\ ncalls[t] < MaxCalls
    /\ frame' = [frame EXCEPT ![t] = [NoFrame EXCEPT !.op = "drank_water",
                                      !.entry = daily_total, !.day = today,
                                      !.reg = daily_total]]
    /\ pc' = [pc EXCEPT ![t] = "store"]
    /\ ncalls' = [ncalls EXCEPT ![t] = @ + 1]
    /\ UNCHANGED shell_vars
    /\ UNCHANGED <<daily_total, progress_label, log_file, today, npeed, start_total, start_day>>

\* line 212, self.daily_total += 1: the write
drank_water_store(t) ==
    /\ pc[t] = "store"
    /\ frame[t].op = "drank_water"
    /\ daily_total' = frame[t].reg + 1
    /\ pc' = [pc EXCEPT ![t] = "display"]
    /\ UNCHANGED shell_vars
    /\ UNCHANGED <<progress_label, log_file, today, frame, ncalls, npeed, start_total, start_day>>

\* peed that saves the log also when the total is zero
peed_test_always_saves(t) ==
    /\ pc[t] = "idle"
    /\ ncalls[t] < MaxCalls
    /\ frame' = [frame EXCEPT ![t] = [NoFrame EXCEPT !.op = "peed", !.entry = daily_total,
                                      !.day = today]]
    /\ pc' = [pc EXCEPT ![t] = IF daily_total > 0 THEN "load" ELSE "save_log"]
    /\ ncalls' = [ncalls EXCEPT ![t] = @ + 1]
    /\ npeed' = npeed + 1
    /\ UNCHANGED shell_vars
    /\ UNCHANGED <<daily_total, progress_label, log_file, today, start_total, start_day>>

\* peed with the floor test off by one: if self.daily_total >= 0
peed_test_off_by_one(t) ==
    /\ pc[t] = "idle"
    /\ ncalls[t] < MaxCalls
    /\ frame' = [frame EXCEPT ![t] = [NoFrame EXCEPT !.op = "peed", !.entry = daily_total,
                                      !.day = today]]
    /\ pc' = [pc EXCEPT ![t] = IF daily_total >= 0 THEN "load" ELSE "return"]
    /\ ncalls' = [ncalls EXCEPT ![t] = @ + 1]
    /\ npeed' = npeed + 1
    /\ UNCHANGED shell_vars
    /\ UNCHANGED <<daily_total, progress_label, log_file, today, start_total, start_day>>

\* line 219, if self.daily_total > 0; line 225 when it is not
peed_test(t) ==
    /\ pc[t] = "idle"
    /\ ncalls[t] < MaxCalls
    /\ frame' = [frame EXCEPT ![t] = [NoFrame EXCEPT !.op = "peed", !.entry = daily_total,
                                      !.day = today]]
    /\ pc' = [pc EXCEPT ![t] = IF daily_total > 0 THEN "load" ELSE "return"]
    /\ ncalls' = [ncalls EXCEPT ![t] = @ + 1]
    /\ npeed' = npeed + 1
    /\ UNCHANGED shell_vars
    /\ UNCHANGED <<daily_total, progress_label, log_file, today, start_total, start_day>>

\* line 220, self.daily_total -= 1: the read
peed_load(t) ==
    /\ pc[t] = "load"
    /\ frame' = [frame EXCEPT ![t].reg = daily_total]
    /\ pc' = [pc EXCEPT ![t] = "store"]
    /\ UNCHANGED shell_vars
    /\ UNCHANGED <<daily_total, progress_label, log_file, today, ncalls, npeed, start_total, start_day>>

\* line 220, self.daily_total -= 1: the write
peed_store(t) ==
    /\ pc[t] = "store"
    /\ frame[t].op = "peed"
    /\ daily_total' = frame[t].reg - 1
    /\ pc' = [pc EXCEPT ![t] = "display"]
    /\ UNCHANGED shell_vars
    /\ UNCHANGED <<progress_label, log_file, today, frame, ncalls, npeed, start_total, start_day>>

\* update_display, called at lines 213 and 221
update_display(t) ==
    /\ pc[t] = "display"
    /\ TkCallable(t)
    /\ progress_label' = daily_total
    /\ pc' = [pc EXCEPT ![t] = "save_log"]
    /\ UNCHANGED shell_vars
    /\ UNCHANGED <<daily_total, log_file, today, frame, ncalls, npeed, start_total, start_day>>

\* save_log that keeps the date the program started on
save_log_begin_start_day(t) ==
    /\ pc[t] = "save_log"
    /\ frame' = [frame EXCEPT ![t].tdy = start_day, ![t].row = new_row(start_day, daily_total)]
    /\ pc' = [pc EXCEPT ![t] = "read_excel"]
    /\ UNCHANGED shell_vars
    /\ UNCHANGED <<daily_total, progress_label, log_file, today, ncalls, npeed, start_total, start_day>>

\* save_log, lines 115-116: today and new_row
save_log_begin(t) ==
    /\ pc[t] = "save_log"
    /\ frame' = [frame EXCEPT ![t].tdy = today, ![t].row = new_row(today, daily_total)]
    /\ pc' = [pc EXCEPT ![t] = "read_excel"]
    /\ UNCHANGED shell_vars
    /\ UNCHANGED <<daily_total, progress_label, log_file, today, ncalls, npeed, start_total, start_day>>

\* save_log, lines 119-120, and lines 128-130 when the file does not exist;
\* the ValueError of line 120 is not caught
save_log_read(t) ==
    /\ pc[t] = "read_excel"
    /\ IF ~log_file.exists
       THEN /\ frame' = [frame EXCEPT ![t].df = <<frame[t].row>>]
            /\ pc' = [pc EXCEPT ![t] = "to_excel"]
       ELSE IF to_datetime_raises(log_file)
       THEN /\ frame' = frame
            /\ pc' = [pc EXCEPT ![t] = "raise"]
       ELSE /\ frame' = [frame EXCEPT ![t].df = read_excel(log_file)]
            /\ pc' = [pc EXCEPT ![t] = "upsert"]
    /\ UNCHANGED shell_vars
    /\ UNCHANGED <<daily_total, progress_label, log_file, today, ncalls, npeed, start_total, start_day>>

\* save_log, lines 123-127
save_log_upsert(t) ==
    /\ pc[t] = "upsert"
    /\ frame' = [frame EXCEPT ![t].df = upsert(frame[t].df, frame[t].tdy, daily_total, frame[t].row)]
    /\ pc' = [pc EXCEPT ![t] = "to_excel"]
    /\ UNCHANGED shell_vars
    /\ UNCHANGED <<daily_total, progress_label, log_file, today, ncalls, npeed, start_total, start_day>>

\* save_log with the write left for later: the table stays in memory
save_log_write_deferred(t) ==
    /\ pc[t] = "to_excel"
    /\ pc' = [pc EXCEPT ![t] = "return"]
    /\ UNCHANGED shell_vars
    /\ UNCHANGED <<daily_total, progress_label, log_file, today, frame, ncalls, npeed, start_total, start_day>>

\* save_log, line 133: df.to_excel(LOG_FILE, index=False)
save_log_write(t) ==
    /\ pc[t] = "to_excel"
    /\ log_file' = [exists |-> TRUE, rows |-> frame[t].df]
    /\ pc' = [pc EXCEPT ![t] = "return"]
    /\ UNCHANGED shell_vars
    /\ UNCHANGED <<daily_total, progress_label, today, frame, ncalls, npeed, start_total, start_day>>

\* save_log, line 119: pd.read_excel raises because the file cannot be opened
\* (PermissionError: another program holds it); only FileNotFoundError is caught
save_log_read_fails(t) ==
    /\ pc[t] = "read_excel"
    /\ log_file.exists
    /\ pc' = [pc EXCEPT ![t] = "raise"]
    /\ UNCHANGED shell_vars
    /\ UNCHANGED <<daily_total, progress_label, log_file, today, frame, ncalls, npeed, start_total, start_day>>

\* save_log, line 133: df.to_excel raises (disk full, no permission) and the
\* file stays as it was
save_log_write_fails(t) ==
    /\ pc[t] = "to_excel"
    /\ pc' = [pc EXCEPT ![t] = "raise"]
    /\ UNCHANGED shell_vars
    /\ UNCHANGED <<daily_total, progress_label, log_file, today, frame, ncalls, npeed, start_total, start_day>>

\* the handler returns to its thread's event loop
handler_return(t) ==
    /\ pc[t] = "return"
    /\ pc' = [pc EXCEPT ![t] = "idle"]
    /\ frame' = [frame EXCEPT ![t] = NoFrame]
    /\ UNCHANGED shell_vars
    /\ UNCHANGED <<daily_total, progress_label, log_file, today, ncalls, npeed, start_total, start_day>>

\* save_log called on its own (the function applied to a log, a date and a total)
call_save_log(t) ==
    /\ pc[t] = "idle"
    /\ ncalls[t] < MaxUpserts
    /\ frame' = [frame EXCEPT ![t] = [NoFrame EXCEPT !.op = "save_log"]]
    /\ pc' = [pc EXCEPT ![t] = "save_log"]
    /\ ncalls' = [ncalls EXCEPT ![t] = @ + 1]
    /\ UNCHANGED shell_vars
    /\ UNCHANGED <<daily_total, progress_label, log_file, today, npeed, start_total, start_day>>

\* the calendar date changes while the program runs
midnight ==
    /\ today < MaxDay
    /\ today' = today + 1
    /\ UNCHANGED shell_vars
    /\ UNCHANGED <<daily_total, progress_label, log_file, pc, frame, ncalls, npeed, start_total, start_day>>

\* the handler ends with an exception: Tk reports it and its loop goes on
handler_raise(t) ==
    /\ pc[t] = "raise"
    /\ pc' = [pc EXCEPT ![t] = "idle"]
    /\ frame' = [frame EXCEPT ![t] = NoFrame]
    /\ UNCHANGED shell_vars
    /\ UNCHANGED <<daily_total, progress_label, log_file, today, ncalls, npeed, start_total, start_day>>

\* ------------------------------------------- settings, timer, tray, window
settings_vars == <<settings_file, interval_minutes, cup_name, interval_value_label>>

timer_vars == <<timer_id, after_pending, after_next>>

window_vars == <<wm_state, raised, focused, unmap_pending, visible>>

data_vars == <<daily_total, progress_label, log_file, today, ncalls, npeed, start_total, start_day>>

MaxTimers == 3     \* handles Tk's `after` gives out: after#1 .. after#MaxTimers

\* The main loop serves the window: it is idle and the window exists.
UiReady == pc["ui"] = "idle" /\ ~destroyed

\* The tray's loop serves the menu.
TrayReady == pc["tray"] = "idle" /\ tray_icon = "running"

\* update_interval_label that also restarts the timer with the new interval
update_interval_label_rearms(k) ==
    /\ UiReady
    /\ interval_minutes' = slider_minutes(k)
    /\ interval_value_label' = slider_minutes(k)
    /\ after_pending' = {[id |-> after_next, ms |-> slider_minutes(k) * 60 * 1000]}
    /\ timer_id' = after_next
    /\ after_next' = after_next + 1
    /\ pc' = [pc EXCEPT !["ui"] = "save_settings"]
    /\ frame' = [frame EXCEPT !["ui"] = [NoFrame EXCEPT !.op = "update_interval_label"]]
    /\ UNCHANGED <<settings_file, cup_name, tray_icon, destroyed>>
    /\ UNCHANGED <<window_vars, data_vars>>

\* update_interval_label, lines 229-231, with the slider at step k
update_interval_label(k) ==
    /\ UiReady
    /\ interval_minutes' = slider_minutes(k)
    /\ interval_value_label' = slider_minutes(k)
    /\ pc' = [pc EXCEPT !["ui"] = "save_settings"]
    /\ frame' = [frame EXCEPT !["ui"] = [NoFrame EXCEPT !.op = "update_interval_label"]]
    /\ UNCHANGED <<settings_file, cup_name, tray_icon, destroyed>>
    /\ UNCHANGED <<timer_vars, window_vars, data_vars>>

\* save_settings, lines 87-91, called at line 233; line 89 raises KeyError
\* when the file read has no [Settings] section
save_settings(t) ==
    /\ pc[t] = "save_settings"
    /\ IF has_section(settings_file)
       THEN /\ settings_file' = save_settings_file(settings_file, interval_minutes)
            /\ pc' = [pc EXCEPT ![t] = "return"]
       ELSE /\ settings_file' = settings_file
            /\ pc' = [pc EXCEPT ![t] = "raise"]
    /\ UNCHANGED <<interval_minutes, cup_name, interval_value_label, tray_icon, destroyed, frame>>
    /\ UNCHANGED <<timer_vars, window_vars, data_vars>>

\* after_cancel that leaves the callback scheduled
after_cancel_keeps(pending, handle) == pending

\* self.after_cancel(handle)
after_cancel(pending, handle) == {tm \in pending : tm.id # handle}

\* self.after(ms, self.show_notification), with the handle Tk returns
after(pending, handle, ms) == pending \cup {[id |-> handle, ms |-> ms]}

\* start_reminder_timer, lines 239-243: the table of callbacks after the call
start_reminder_timer_table(pending, old, handle, minutes) ==
    after(IF old # 0 THEN after_cancel(pending, old) ELSE pending,
          handle, minutes * 60 * 1000)

\* start_reminder_timer, lines 239-244, called at line 259
start_reminder_timer(t) ==
    /\ pc[t] = "start_reminder_timer"
    /\ after_pending' = start_reminder_timer_table(after_pending, timer_id,
                                                   after_next, interval_minutes)
    /\ timer_id' = after_next
    /\ after_next' = after_next + 1
    /\ pc' = [pc EXCEPT ![t] = "return"]
    /\ UNCHANGED <<settings_vars, tray_icon, destroyed, frame>>
    /\ UNCHANGED <<window_vars, data_vars>>

\* The delay of a scheduled callback has passed: Tk takes it off its table
\* and calls show_notification (line 246).
timer_fires ==
    /\ UiReady
    /\ after_next <= MaxTimers
    /\ \E tm \in after_pending : after_pending' = after_pending \ {tm}
    /\ pc' = [pc EXCEPT !["ui"] = "toast"]
    /\ frame' = [frame EXCEPT !["ui"] = [NoFrame EXCEPT !.op = "show_notification"]]
    /\ UNCHANGED <<settings_vars, timer_id, after_next, tray_icon, destroyed>>
    /\ UNCHANGED <<window_vars, data_vars>>

\* show_notification, lines 248-256: the toast is shown, or toast.show() raises
toast_show(t) ==
    /\ pc[t] = "toast"
    /\ \/ pc' = [pc EXCEPT ![t] = "start_reminder_timer"]
       \/ pc' = [pc EXCEPT ![t] = "raise"]
    /\ UNCHANGED <<settings_vars, tray_icon, destroyed, frame>>
    /\ UNCHANGED <<timer_vars, window_vars, data_vars>>

\* exit_app, line 301: if self.timer_id
exit_app_test ==
    /\ TrayReady
    /\ pc' = [pc EXCEPT !["tray"] = IF timer_id # 0 THEN "exit_arg" ELSE "tray_stop"]
    /\ frame' = [frame EXCEPT !["tray"] = [NoFrame EXCEPT !.op = "exit_app"]]
    /\ UNCHANGED <<settings_vars, tray_icon, destroyed>>
    /\ UNCHANGED <<timer_vars, window_vars, data_vars>>

\* exit_app, line 302: the argument self.timer_id is read
exit_app_arg(t) ==
    /\ pc[t] = "exit_arg"
    /\ frame' = [frame EXCEPT ![t].reg = timer_id]
    /\ pc' = [pc EXCEPT ![t] = "after_cancel"]
    /\ UNCHANGED <<settings_vars, tray_icon, destroyed>>
    /\ UNCHANGED <<timer_vars, window_vars, data_vars>>

\* exit_app, line 302: self.after_cancel(...)
exit_app_cancel(t) ==
    /\ pc[t] = "after_cancel"
    /\ TkCallable(t)
    /\ after_pending' = after_cancel(after_pending, frame[t].reg)
    /\ pc' = [pc EXCEPT ![t] = "tray_stop"]
    /\ UNCHANGED <<settings_vars, timer_id, after_next, tray_icon, destroyed, frame>>
    /\ UNCHANGED <<window_vars, data_vars>>

\* exit_app, lines 303-304: self.tray_icon.stop()
exit_app_stop(t) ==
    /\ pc[t] = "tray_stop"
    /\ tray_icon' = "stopped"
    /\ pc' = [pc EXCEPT ![t] = "destroy"]
    /\ UNCHANGED <<settings_vars, destroyed, frame>>
    /\ UNCHANGED <<timer_vars, window_vars, data_vars>>

\* exit_app, line 305: self.destroy(), which ends mainloop
exit_app_destroy(t) ==
    /\ pc[t] = "destroy"
    /\ TkCallable(t)
    /\ destroyed' = TRUE
    /\ pc' = [pc EXCEPT ![t] = "return"]
    /\ UNCHANGED <<settings_vars, tray_icon, frame>>
    /\ UNCHANGED <<timer_vars, window_vars, data_vars>>

\* hide_to_tray, lines 289-291: self.withdraw(); the window is unmapped
hide_to_tray ==
    /\ wm_state' = "withdrawn"
    /\ raised' = FALSE
    /\ focused' = FALSE
    /\ visible' = FALSE

\* The close button, line 61: WM_DELETE_WINDOW runs hide_to_tray; the
\* unmapping sends <Unmap>.
close_button ==
    /\ UiReady
    /\ wm_state = "normal"
    /\ hide_to_tray
    /\ unmap_pending' = TRUE
    /\ UNCHANGED <<settings_vars, tray_icon, destroyed, pc, frame>>
    /\ UNCHANGED <<timer_vars, data_vars>>

\* The minimize button: the window manager iconifies the window and sends
\* <Unmap>, bound at line 63.
minimize_button ==
    /\ ~destroyed
    /\ wm_state = "normal"
    /\ wm_state' = "iconic"
    /\ focused' = FALSE
    /\ unmap_pending' = TRUE
    /\ UNCHANGED <<raised, visible>>
    /\ UNCHANGED <<settings_vars, tray_icon, destroyed, pc, frame>>
    /\ UNCHANGED <<timer_vars, data_vars>>

\* on_minimize that leaves a minimized window on the taskbar
on_minimize_keeps_icon ==
    /\ UiReady
    /\ unmap_pending
    /\ unmap_pending' = FALSE
    /\ UNCHANGED <<wm_state, raised, focused, visible>>
    /\ UNCHANGED <<settings_vars, tray_icon, destroyed, pc, frame>>
    /\ UNCHANGED <<timer_vars, data_vars>>

\* on_minimize, lines 284-287, run for a waiting <Unmap>
on_minimize ==
    /\ UiReady
    /\ unmap_pending
    /\ unmap_pending' = FALSE
    /\ IF wm_state = "iconic"
       THEN hide_to_tray
       ELSE UNCHANGED <<wm_state, raised, focused, visible>>
    /\ UNCHANGED <<settings_vars, tray_icon, destroyed, pc, frame>>
    /\ UNCHANGED <<timer_vars, data_vars>>

\* The user turns to another window, which takes the focus and covers this one.
other_window_activated ==
    /\ ~destroyed
    /\ raised \/ focused
    /\ raised' = FALSE
    /\ focused' = FALSE
    /\ UNCHANGED <<wm_state, unmap_pending, visible>>
    /\ UNCHANGED <<settings_vars, tray_icon, destroyed, pc, frame>>
    /\ UNCHANGED <<timer_vars, data_vars>>

\* show_from_tray, line 295: self.deiconify()
show_from_tray_deiconify ==
    /\ TrayReady
    /\ TkCallable("tray")
    /\ ~destroyed
    /\ wm_state' = "normal"
    /\ visible' = TRUE
    /\ pc' = [pc EXCEPT !["tray"] = "lift"]
    /\ frame' = [frame EXCEPT !["tray"] = [NoFrame EXCEPT !.op = "show_from_tray",
                    !.entry = IF wm_state = "withdrawn" THEN 1 ELSE 0]]
    /\ UNCHANGED <<raised, focused, unmap_pending>>
    /\ UNCHANGED <<settings_vars, tray_icon, destroyed>>
    /\ UNCHANGED <<timer_vars, data_vars>>

\* show_from_tray, line 296: self.lift()
show_from_tray_lift(t) ==
    /\ pc[t] = "lift"
    /\ TkCallable(t)
    /\ raised' = TRUE
    /\ pc' = [pc EXCEPT ![t] = "focus_force"]
    /\ UNCHANGED <<wm_state, focused, unmap_pending, visible>>
    /\ UNCHANGED <<settings_vars, tray_icon, destroyed, frame>>
    /\ UNCHANGED <<timer_vars, data_vars>>

\* show_from_tray, line 297: self.focus_force()
show_from_tray_focus(t) ==
    /\ pc[t] = "focus_force"
    /\ TkCallable(t)
    /\ focused' = TRUE
    /\ pc' = [pc EXCEPT ![t] = "return"]
    /\ UNCHANGED <<wm_state, raised, unmap_pending, visible>>
    /\ UNCHANGED <<settings_vars, tray_icon, destroyed, frame>>
    /\ UNCHANGED <<timer_vars, data_vars>>

\* __init__, lines 31-35, before load_settings is called at line 38, with the
\* settings `file` on disk
ShellBefore(file) ==
    /\ settings_file = file
    /\ interval_minutes = 30
    /\ cup_name = "cup"
    /\ interval_value_label = 30
    /\ after_pending = {}
    /\ timer_id = 0
    /\ after_next = 1
    /\ tray_icon = "none"
    /\ destroyed = FALSE
    /\ wm_state = "withdrawn"
    /\ raised = FALSE
    /\ focused = FALSE
    /\ unmap_pending = FALSE
    /\ visible = FALSE

\* __init__, lines 38-63: load_settings and the rest of the construction, up
\* to mainloop (line 310); an exception of load_settings ends the program
construct ==
    /\ pc["ui"] = "init"
    /\ IF load_settings_raises(settings_file)
       THEN /\ pc' = [pc EXCEPT !["ui"] = "exited"]
            /\ UNCHANGED shell_vars
       ELSE /\ pc' = [pc EXCEPT !["ui"] = "idle"]
            /\ settings_file' = load_settings_file(settings_file)
            /\ interval_minutes' = load_settings(settings_file).interval_minutes
            /\ cup_name' = load_settings(settings_file).cup_name
            /\ interval_value_label' = interval_minutes'
            /\ after_pending' = start_reminder_timer_table({}, 0, 1, interval_minutes')
            /\ timer_id' = 1
            /\ after_next' = 2
            /\ tray_icon' = "running"
            /\ wm_state' = "normal"
            /\ raised' = TRUE
            /\ focused' = TRUE
            /\ visible' = TRUE
            /\ UNCHANGED <<destroyed, unmap_pending>>
    /\ UNCHANGED <<frame, data_vars>>

\* __init__, lines 31, 39 and 53: the counter after construction on day `tdy`
\* with the log `file`
CounterAfter(tdy, file) ==
    /\ today = tdy
    /\ log_file = file
    /\ daily_total = load_or_create_log(file, tdy)
    /\ progress_label = daily_total
    /\ start_total = daily_total
    /\ start_day = today
    /\ ncalls = [t \in Threads |-> 0]
    /\ npeed = 0

\* __init__, lines 32-38 and 56-63: settings, timer, tray and window after
\* construction with the settings `file`
ShellAfter(file) ==
    /\ settings_file = load_settings_file(file)
    /\ interval_minutes = load_settings(file).interval_minutes
    /\ cup_name = load_settings(file).cup_name
    /\ interval_value_label = interval_minutes
    /\ after_pending = start_reminder_timer_table({}, 0, 1, interval_minutes)
    /\ timer_id = 1
    /\ after_next = 2
    /\ tray_icon = "running"
    /\ destroyed = FALSE
    /\ wm_state = "normal"
    /\ raised = TRUE
    /\ focused = TRUE
    /\ unmap_pending = FALSE
    /\ visible = TRUE

Idle ==
    /\ pc = [t \in Threads |-> "idle"]
    /\ frame = [t \in Threads |-> NoFrame]

\* The counter started on any day with any log the program wrote.
InitCounter ==
    /\ \E tdy \in Dates : \E file \in LogFiles(tdy) : CounterAfter(tdy, file)
    /\ ShellAfter(DefaultSettings)
    /\ Idle

\* save_log's inputs: any log file, any date, any total.
InitUpsert ==
    /\ today \in Dates
    /\ log_file \in AnyLogFiles
    /\ daily_total \in 0..MaxCups
    /\ progress_label = daily_total
    /\ start_total = daily_total
    /\ start_day = today
    /\ ncalls = [t \in Threads |-> 0]
    /\ npeed = 0
    /\ ShellAfter(DefaultSettings)
    /\ Idle

\* The program started with any settings file.
InitShell ==
    /\ CounterAfter(1, NoLog)
    /\ \E file \in SettingsFiles : ShellAfter(file)
    /\ Idle

\* The counter started on any day with any log, damaged ones too.
InitDisk ==
    /\ \E tdy \in Dates : \E file \in DamagedLogFiles(tdy) : CounterAfter(tdy, file)
    /\ ShellAfter(DefaultSettings)
    /\ Idle

\* The program is started with any settings file: __init__ is about to call
\* load_settings.
InitStartup ==
    /\ CounterAfter(1, NoLog)
    /\ \E file \in AnySettingsFiles : ShellBefore(file)
    /\ pc = [t \in Threads |-> IF t = "ui" THEN "init" ELSE "idle"]
    /\ frame = [t \in Threads |-> NoFrame]

\* The window's buttons and the tray's menu items, one call at a time.
NextSerial ==
    \/ \E t \in Threads : AllIdle /\ drank_water_load(t)
    \/ \E t \in Threads : AllIdle /\ peed_test(t)
    \/ \E t \in Threads : drank_water_store(t)
    \/ \E t \in Threads : peed_load(t)
    \/ \E t \in Threads : peed_store(t)
    \/ \E t \in Threads : update_display(t)
    \/ \E t \in Threads : save_log_begin(t)
    \/ \E t \in Threads : save_log_read(t)
    \/ \E t \in Threads : save_log_upsert(t)
    \/ \E t \in Threads : save_log_write(t)
    \/ \E t \in Threads : handler_return(t)
    \/ midnight

\* The same calls, one at a time, on a disk that may refuse a read or a write.
NextDisk ==
    \/ NextSerial
    \/ \E t \in Threads : save_log_read_fails(t)
    \/ \E t \in Threads : save_log_write_fails(t)
    \/ \E t \in Threads : handler_raise(t)

\* save_log applied again and again to the same date and total.
NextUpsert ==
    \/ call_save_log("ui")
    \/ \E t \in Threads : save_log_begin(t)
    \/ \E t \in Threads : save_log_read(t)
    \/ \E t \in Threads : save_log_upsert(t)
    \/ \E t \in Threads : save_log_write(t)
    \/ \E t \in Threads : handler_return(t)

\* The two threads run their handlers concurrently.
NextCounter ==
    \/ \E t \in Threads : ncalls[t] < MaxOverlap /\ drank_water_load(t)
    \/ \E t \in Threads : ncalls[t] < MaxOverlap /\ peed_test(t)
    \/ \E t \in Threads : drank_water_store(t)
    \/ \E t \in Threads : peed_load(t)
    \/ \E t \in Threads : peed_store(t)
    \/ \E t \in Threads : update_display(t)
    \/ \E t \in Threads : save_log_begin(t)
    \/ \E t \in Threads : save_log_read(t)
    \/ \E t \in Threads : save_log_upsert(t)
    \/ \E t \in Threads : save_log_write(t)
    \/ \E t \in Threads : handler_return(t)
    \/ midnight

\* The main loop and the tray's loop run their handlers concurrently.
NextShell ==
    \/ \E k \in SliderSteps : update_interval_label(k)
    \/ \E t \in Threads : save_settings(t)
    \/ timer_fires
    \/ \E t \in Threads : toast_show(t)
    \/ \E t \in Threads : start_reminder_timer(t)
    \/ exit_app_test
    \/ \E t \in Threads : exit_app_arg(t)
    \/ \E t \in Threads : exit_app_cancel(t)
    \/ \E t \in Threads : exit_app_stop(t)
    \/ \E t \in Threads : exit_app_destroy(t)
    \/ close_button
    \/ minimize_button
    \/ on_minimize
    \/ other_window_activated
    \/ show_from_tray_deiconify
    \/ \E t \in Threads : show_from_tray_lift(t)
    \/ \E t \in Threads : show_from_tray_focus(t)
    \/ \E t \in Threads : handler_return(t)
    \/ \E t \in Threads : handler_raise(t)

\* The construction, then the handlers.
NextStartup ==
    \/ construct
    \/ NextShell

\* Nothing is in progress: both loops are idle and no event waits.
Quiet == AllIdle /\ ~unmap_pending

\* The same handlers, one user gesture or timer callback at a time.
NextShellSerial ==
    \/ \E k \in SliderSteps : Quiet /\ update_interval_label(k)
    \/ \E t \in Threads : save_settings(t)
    \/ Quiet /\ timer_fires
    \/ \E t \in Threads : toast_show(t)
    \/ \E t \in Threads : start_reminder_timer(t)
    \/ Quiet /\ exit_app_test
    \/ \E t \in Threads : exit_app_arg(t)
    \/ \E t \in Threads : exit_app_cancel(t)
    \/ \E t \in Threads : exit_app_stop(t)
    \/ \E t \in Threads : exit_app_destroy(t)
    \/ Quiet /\ close_button
    \/ Quiet /\ minimize_button
    \/ on_minimize
    \/ Quiet /\ other_window_activated
    \/ Quiet /\ show_from_tray_deiconify
    \/ \E t \in Threads : show_from_tray_lift(t)
    \/ \E t \in Threads : show_from_tray_focus(t)
    \/ \E t \in Threads : handler_return(t)
    \/ \E t \in Threads : handler_raise(t)

vars == <<counter_vars, shell_vars>>

SpecSerial == InitCounter /\ [][NextSerial]_vars

SpecCounter == InitCounter /\ [][NextCounter]_vars

SpecDisk == InitDisk /\ [][NextDisk]_vars

SpecUpsert == InitUpsert /\ [][NextUpsert]_vars

SpecShell == InitShell /\ [][NextShell]_vars

SpecShellSerial == InitShell /\ [][NextShellSerial]_vars

SpecStartup == InitStartup /\ [][NextStartup]_vars

\* ------------------------------------------------------------------ claims
\* The date a counter call saved under, or today's for a call that saved nothing.
call_date(t) == IF frame[t].tdy = 0 THEN today ELSE frame[t].tdy

CounterOps == {"drank_water", "peed"}

\* C1: with the calls issued one at a time, daily_total is never negative, and
\* a Peed call entered with daily_total = 0 returns with daily_total = 0.
C1_FloorHolds ==
    /\ daily_total >= 0
    /\ \A t \in Threads :
         (pc[t] = "return" /\ frame[t].op = "peed" /\ frame[t].entry = 0) => daily_total = 0

\* A Peed call entered at zero returns, after a Drank and a Peed brought the
\* total there.
C1_Witness ==
    \E t \in Threads :
        /\ pc[t] = "return" /\ frame[t].op = "peed" /\ frame[t].entry = 0
        /\ ncalls["ui"] + ncalls["tray"] >= 3
        /\ npeed >= 2

\* C2: with the calls issued one at a time, when a Drank or Peed call returns
\* the total a restart would load from the log for the call's date is daily_total.
C2_PersistedEqualsTotal ==
    \A t \in Threads :
        (pc[t] = "return" /\ frame[t].op \in CounterOps) =>
            load_or_create_log(log_file, call_date(t)) = daily_total

\* The log held 3 for today, and the second of two Drank calls returns with 5
\* in memory and in the log.
C2_Witness ==
    \E t \in Threads :
        /\ pc[t] = "return" /\ frame[t].op = "drank_water"
        /\ start_total = 3 /\ npeed = 0 /\ ncalls["ui"] + ncalls["tray"] = 2
        /\ daily_total = 5
        /\ load_or_create_log(log_file, today) = 5

\* C3: once a Drank from the tray and a Drank from the window have both
\* returned, whatever their interleaving, daily_total is the initial total plus 2.
C3_NoLostIncrement ==
    (AllIdle /\ npeed = 0 /\ ncalls["ui"] = 1 /\ ncalls["tray"] = 1) =>
        daily_total = start_total + 2

\* C9: a second (and any later) application of save_log to the same date and
\* total writes back exactly the log the first one left.
C9_UpsertIdempotent ==
    [][\A t \in Threads : (pc[t] = "to_excel" /\ ncalls[t] >= 2) => log_file' = log_file]_vars

\* save_log has been applied twice to a log that has a row for another day:
\* the second application has returned.
C9_Witness ==
    /\ pc["ui"] = "return" /\ frame["ui"].op = "save_log" /\ ncalls["ui"] = 2
    /\ Len(log_file.rows) >= 2
    /\ \E i \in 1..Len(log_file.rows) : log_file.rows[i] = new_row(today, daily_total)

\* The timer self.timer_id names is scheduled.
TimerArmed == \E tm \in after_pending : tm.id = timer_id

\* exit_app has gone past its after_cancel.
ExitReleasing == pc["tray"] \in {"tray_stop", "destroy"} \/ tray_icon = "stopped"

\* C4: with the scheduler's operations run one at a time, at most one timer
\* is scheduled in every state, and it is the one self.timer_id names; when a
\* timer callback has re-armed exactly one is scheduled; once exit_app has
\* cancelled, none is.
C4_OneTimer ==
    /\ Cardinality(after_pending) <= 1
    /\ \A tm \in after_pending : tm.id = timer_id
    /\ (pc["ui"] = "return" /\ frame["ui"].op = "show_notification") =>
           (Cardinality(after_pending) = 1 /\ TimerArmed)
    /\ ExitReleasing => after_pending = {}

\* exit_app has cancelled and destroyed the window after a timer had fired and
\* re-armed at least once.
C4_Witness == destroyed /\ after_next >= 3 /\ after_pending = {} /\ timer_id >= 2

\* C5: update_interval_label, and the save_settings it calls, leave the
\* scheduled timer and self.timer_id as they are; every callback scheduled by a
\* step is scheduled with the interval current at that step.
C5_IntervalChangeKeepsTimer ==
    [][/\ ((\E k \in SliderSteps : update_interval_label(k)) \/ (\E t \in Threads : save_settings(t)))
            => UNCHANGED <<timer_id, after_pending>>
       /\ \A tm \in after_pending' \ after_pending : tm.ms = interval_minutes * 60 * 1000]_vars

\* The interval was changed while a timer was scheduled: the timer still has
\* the delay it was armed with, which is not the current interval.
C5_Witness ==
    /\ pc["ui"] = "idle"
    /\ \E tm \in after_pending : tm.id = timer_id /\ tm.ms # interval_minutes * 60 * 1000

\* C6: every timer callback, whether the toast was shown or toast.show()
\* raised, ends normally with a new timer scheduled.
C6_RearmsRegardless ==
    \A t \in Threads :
        (pc[t] \in {"return", "raise"} /\ frame[t].op = "show_notification") =>
            (pc[t] = "return" /\ TimerArmed)

\* C7: once exit_app has gone past its after_cancel (it is about to stop the
\* tray, or has), no timer is scheduled and no timer callback is running.
C7_NoTimerOnceExitReleases ==
    ExitReleasing =>
        (after_pending = {} /\ pc["ui"] \notin {"toast", "start_reminder_timer"})

\* C8: when update_interval_label ends, after its save_settings, load_settings
\* of the file yields the interval and the unit label in memory.
C8_SettingsRoundTrip ==
    \A t \in Threads :
        (pc[t] \in {"return", "raise"} /\ frame[t].op = "update_interval_label") =>
            load_settings(settings_file) =
                [interval_minutes |-> interval_minutes, cup_name |-> cup_name]

\* C10: with the gestures handled one at a time, show_from_tray returns with
\* the window shown, raised and focused, and whenever nothing is in progress
\* the presence last asked for is the window's state: shown when it was a
\* show, withdrawn when it was a hide or a minimize.
C10_PresenceAgrees ==
    /\ \A t \in Threads :
         (pc[t] = "return" /\ frame[t].op = "show_from_tray") =>
             (wm_state = "normal" /\ raised /\ focused /\ visible)
    /\ (Quiet /\ ~destroyed) =>
           /\ visible <=> wm_state = "normal"
           /\ ~visible <=> wm_state = "withdrawn"

\* show_from_tray returns, having been called on a withdrawn window.
C10_Witness ==
    /\ pc["tray"] = "return" /\ frame["tray"].op = "show_from_tray"
    /\ frame["tray"].entry = 1
    /\ wm_state = "normal" /\ raised /\ focused

\* C11: counter calls of the two threads take effect one after another; in
\* particular when the total starts at 1 and the only calls are Peed calls,
\* one from each thread at most, daily_total never goes below 0.
C11_ConcurrentPeedsKeepFloor ==
    (start_total = 1 /\ npeed = ncalls["ui"] + ncalls["tray"]) => daily_total >= 0

\* C12: whenever the counter calls of both threads have all returned, and the
\* date has not changed since the program started, the total a restart would
\* load from the log for today is daily_total.
C12_LogMirrorsCounter ==
    (AllIdle /\ ncalls["ui"] + ncalls["tray"] >= 1 /\ today = start_day) =>
        load_or_create_log(log_file, today) = daily_total

\* The rows of the log for day d, as the program reads them.
record_of(file, d) ==
    IF file.exists /\ ~to_datetime_raises(file) THEN today_entry(read_excel(file), d) ELSE <<>>

\* A counter call that was invoked after the date had changed since the
\* program started, and that saved, returns.
ReturnsAfterDateChange(t) ==
    /\ pc[t] = "return" /\ frame[t].op \in CounterOps
    /\ frame[t].day # start_day /\ frame[t].tdy # 0

\* C13 as stated: a call invoked after the date has changed leaves daily_total
\* in the record of the date the program started on, and no record of the
\* new date.
C13_AccumulatesIntoStartDay ==
    \A t \in Threads : ReturnsAfterDateChange(t) =>
        /\ load_or_create_log(log_file, start_day) = daily_total
        /\ record_of(log_file, frame[t].tdy) = <<>>

\* C13, amended: a call invoked after the date has changed goes on from the
\* total carried over and leaves it in the record of the date of the call;
\* its write leaves the record of the date the program started on as it was.
C13_AccumulatesIntoNewDay ==
    /\ [](\A t \in Threads : ReturnsAfterDateChange(t) =>
            /\ daily_total = frame[t].entry + (IF frame[t].op = "drank_water" THEN 1 ELSE -1)
            /\ frame[t].tdy >= frame[t].day
            /\ load_or_create_log(log_file, frame[t].tdy) = daily_total)
    /\ [][\A t \in Threads :
            (pc[t] = "to_excel" /\ frame[t].day # start_day /\ pc'[t] = "return") =>
                record_of(log_file', start_day) = record_of(log_file, start_day)]_vars

\* The program started on day 1 with 2 in the log; a Drank invoked on day 2
\* returns with 3 in the record of day 2 and 2 still in the record of day 1.
C13_Witness ==
    \E t \in Threads :
        /\ ReturnsAfterDateChange(t) /\ frame[t].op = "drank_water"
        /\ start_day = 1 /\ frame[t].tdy = 2 /\ start_total = 2
        /\ load_or_create_log(log_file, 2) = 3
        /\ load_or_create_log(log_file, 1) = 2

\* C14: the first call after the date has changed re-derives daily_total from
\* the new date's record, of which there is none: a Drank that is the first
\* call of the run and is invoked after the date change returns with
\* daily_total = 1 and 1 in the record of its date.
C14_RederivesOnDateChange ==
    \A t \in Threads :
        (ReturnsAfterDateChange(t) /\ frame[t].op = "drank_water"
            /\ ncalls["ui"] + ncalls["tray"] = 1) =>
                (daily_total = 1 /\ load_or_create_log(log_file, frame[t].tdy) = 1)

\* C15: with the calls issued one at a time, a Peed call invoked with
\* daily_total = 0 goes straight to its return, without an exception, and from
\* its invocation to its return daily_total and the whole log file stay as they
\* were; no row of the log ever holds a negative total.
C15_PeedAtZeroIsNoOp ==
    /\ [](\A i \in 1..Len(log_file.rows) : log_file.rows[i].Total_Cups >= 0)
    /\ [][\A t \in Threads :
            (frame'[t].op = "peed" /\ frame'[t].entry = 0) =>
                /\ pc'[t] = "return"
                /\ daily_total' = 0 /\ daily_total = 0
                /\ log_file' = log_file]_vars

\* A Peed call invoked at zero returns; the log holds two records, today's
\* with total 0.
C15_Witness ==
    \E t \in Threads :
        /\ pc[t] = "return" /\ frame[t].op = "peed" /\ frame[t].entry = 0
        /\ log_file.exists /\ Len(log_file.rows) = 2
        /\ record_of(log_file, today) # <<>>
        /\ load_or_create_log(log_file, today) = 0

\* The total a counter call leaves in memory: one more or one less than the
\* total it was invoked with.
new_total(t) == frame[t].entry + (IF frame[t].op = "drank_water" THEN 1 ELSE -1)

\* C16: on a log that parses, a counter call whose read or write of the log
\* fails does not end by an exception; it ends with daily_total at the newly
\* computed value, and a call that ends after a write that succeeded leaves
\* daily_total in the log.
C16_WriteFailureNonFatal ==
    \A t \in Threads :
        (frame[t].op \in CounterOps /\ ~to_datetime_raises(log_file)) =>
            /\ pc[t] # "raise"
            /\ (pc[t] = "return" /\ frame[t].tdy # 0) =>
                   /\ daily_total = new_total(t)
                   /\ load_or_create_log(log_file, frame[t].tdy) = daily_total

\* C20: when the log holds a row whose date does not parse and a valid row
\* for today with total N, the program starts with daily_total = N, and its
\* counter calls do not end by an exception and leave daily_total in today's row.
C20_MalformedRowSkipped ==
    \A i \in 1..Len(log_file.rows) :
        (/\ to_datetime_raises(log_file)
         /\ log_file.rows[i].Date.fmt # "bad"
         /\ to_datetime(log_file.rows[i].Date) = today) =>
            /\ ncalls["ui"] + ncalls["tray"] = 0 => daily_total = log_file.rows[i].Total_Cups
            /\ \A t \in Threads : frame[t].op \in CounterOps =>
                 /\ pc[t] # "raise"
                 /\ pc[t] = "return" => log_file.rows[i].Total_Cups = daily_total

\* No two rows of the log are for the same date.
DistinctDates ==
    \A i \in 1..Len(log_file.rows) : \A j \in 1..Len(log_file.rows) :
        i < j => to_datetime(log_file.rows[i].Date) # to_datetime(log_file.rows[j].Date)

\* C19: with the calls of the two threads interleaved and the date changing,
\* no date ever has two rows in the log, and a call's write leaves the rows of
\* every date other than the call's own as they were.
C19_OneRecordPerDate ==
    /\ []DistinctDates
    /\ [][\A t \in Threads : (pc[t] = "to_excel" /\ pc'[t] = "return") =>
            \A d \in Dates \ {frame[t].tdy} :
                record_of(log_file', d) = record_of(log_file, d)]_vars

\* What load_settings is to yield from `file`: each field as the file gives
\* it, and the built-in default for a field that cannot be read.
settings_or_defaults(file) ==
    [interval_minutes |->
        IF file.exists /\ ~file.garbled /\ file.section /\ "interval_minutes" \in file.keys
           /\ ~int_raises(file.interval_minutes)
        THEN int(file.interval_minutes) ELSE 30,
     cup_name |->
        IF file.exists /\ ~file.garbled /\ file.section /\ "cup_name" \in file.keys
        THEN file.cup_name ELSE "cup"]

\* C17: whatever settings file the program finds, load_settings returns to
\* __init__ with every field as the file gives it or at its default (30,
\* "cup"), and a file that did not exist has been written with the defaults.
C17_LoadNeverFails ==
    [][pc["ui"] = "init" =>
        /\ pc'["ui"] = "idle"
        /\ interval_minutes' = settings_or_defaults(settings_file).interval_minutes
        /\ cup_name' = settings_or_defaults(settings_file).cup_name
        /\ ~settings_file.exists => settings_file' = DefaultSettings]_vars

\* C18: interval_minutes is within 1..120 in every state, whatever the
\* settings file held at startup and however the slider was moved, and every
\* scheduled timer has a delay of at least one minute.
C18_IntervalInRange ==
    /\ interval_minutes \in 1..120
    /\ \A tm \in after_pending : tm.ms >= 60 * 1000
====
